---- MODULE Spec2Model ----
(***************************************************************************)
(* Model of lalitb/rust-compress-comparison.                               *)
(*                                                                         *)
(*   src/src/main.rs                       the report generator            *)
(*   src/benches/compression_benchmark.rs  the criterion benchmark suite   *)
(*                                                                         *)
(* Bytes are their ASCII codes.  The codecs (flate2, lz4, lz4_flex) are    *)
(* external libraries: a codec call is an environment step that either     *)
(* returns a buffer (of which main.rs only reads the length) or an Err     *)
(* that the wrapper unwrap()s.  f64 values are modelled as exact           *)
(* rationals <<numerator, denominator>> in lowest terms.                   *)
(***************************************************************************)
EXTENDS Integers, Sequences, FiniteSets, TLC

VARIABLES
    prog,            \* which binary runs: "report" (main.rs) or "bench"
    pc,              \* position in the running binary
    DATA_SIZE,       \* main.rs:9, the configured length (scaled down)
    shapeIdx,        \* index into test_cases (main.rs:116)
    phase,           \* which of the three codec sections of the loop body
    levelIdx,        \* index into compression_levels / lz4_rs_levels
    trial,           \* the `for _ in 0..NUM_TRIALS` counter
    data,            \* the Vec<u8> built by generate_test_data
    segs,            \* history: the slices appended to data, in order
    stats,           \* CompressionStats of the current combination
    trialLog,        \* history: the trials run since stats was created
    out,             \* what the last step wrote to stdout (None if nothing)
    events,          \* history: trial starts/ends and printed lines
    errs,            \* history: number of codec calls that returned Err
    sizeIdx,         \* bench: index into DATA_SIZES
    benchIdx,        \* bench: next bench_function of the group
    buf,             \* bench: the buffer generate_binary_data returned
    group,           \* bench: the open benchmark group
    generated,       \* bench history: every buffer generated, in order
    measured,        \* bench history: what criterion measured
    last_iters       \* bench: iterations criterion ran the last routine

vars == <<prog, pc, DATA_SIZE, shapeIdx, phase, levelIdx, trial, data, segs,
          stats, trialLog, out, events, errs, sizeIdx, benchIdx, buf, group,
          generated, measured, last_iters>>

reportVars == <<DATA_SIZE, shapeIdx, phase, levelIdx, trial, data, segs,
                stats, trialLog, out, events>>

benchVars == <<sizeIdx, benchIdx, buf, group, generated, measured, last_iters>>

None == "none"

NoOutput == [kind |-> "none"]

NoGroup == [name |-> "none", size |-> 0]

----------------------------------------------------------------------------
(* Bounds of the model *)

\* DATA_SIZE ranges over 0..MaxLen (the source fixes it to 10 MB).
MaxLen == 11
\* A codec returns a buffer of 1..MaxCompressed bytes (gzip, the LZ4 frame and
\* the size-prefixed LZ4 block all carry framing: the output is taken to be
\* non-empty, which no code of the repository establishes).
MaxCompressed == 2
\* Instant::elapsed() returns 0..MaxDuration ticks.
MaxDuration == 1
\* generate_binary_data fills the buffer with one of MaxSeed contents.
MaxSeed == 2
\* criterion runs a routine 1..MaxIters times.
MaxIters == 2
\* Err results counted before the count is capped.
MaxErrs == 2

----------------------------------------------------------------------------
(* Helpers *)

Min(a, b) == IF a < b THEN a ELSE b

RECURSIVE GCD(_, _)
GCD(a, b) == IF b = 0 THEN a ELSE GCD(b, a % b)

\* n / d as f64, for n >= 0 and d > 0
Rat(n, d) == LET g == GCD(n, d) IN <<n \div g, d \div g>>

RatAdd(a, b) == Rat(a[1] * b[2] + b[1] * a[2], a[2] * b[2])

RatDiv(a, b) == Rat(a[1] * b[2], a[2] * b[1])

\* `x as f64` of an integer
AsF64(x) == <<x, 1>>

RECURSIVE Flatten(_)
Flatten(ss) == IF ss = <<>> THEN <<>> ELSE Head(ss) \o Flatten(Tail(ss))

----------------------------------------------------------------------------
(* main.rs: constants and tables *)

NUM_TRIALS == 1

\* b"HelloWorld"
Pattern == <<72, 101, 108, 108, 111, 87, 111, 114, 108, 100>>

\* rand::distributions::Alphanumeric: a-z, A-Z, 0-9
Alphanumeric == (48..57) \cup (65..90) \cup (97..122)

\* draws from a distribution wider than Alphanumeric: 'H' and '!'
SampleStandard == {72, 33}

\* The bytes one draw of Alphanumeric returns in the model: 'H' and 'z'.
SampleAlphanumeric == {72, 122}

\* rng.gen_bool(0.3)
GenBool == BOOLEAN

test_cases == <<"Random", "Repeating", "Mixed">>

\* compression_levels with its first two entries exchanged
compression_levels_swapped == <<"Default", "Fast", "Best">>

compression_levels == <<"Fast", "Default", "Best">>

lz4_rs_levels == <<[name |-> "Fast", level |-> 0],
                   [name |-> "Default", level |-> 4],
                   [name |-> "Best", level |-> 16]>>

\* Truncate with the truncation left out
TruncateOmitted(v, n) == v

\* Vec::truncate
Truncate(v, n) == SubSeq(v, 1, Min(Len(v), n))

\* Vec::extend_from_slice
ExtendFromSlice(v, s) == v \o s

\* stats before the first `let mut stats` of a run
NoStats == [factor_sum |-> <<0, 1>>, time_sum |-> <<0, 1>>, size_sum |-> 0]

\* stats declared outside the loops: a combination starts from the sums before it
StatsCarriedOver == stats

\* CompressionStats::default()
CompressionStatsDefault == [factor_sum |-> AsF64(0), time_sum |-> AsF64(0), size_sum |-> 0]

\* the Err is swallowed and the call made again
UnwrapErrSwallowed == pc

\* Result::unwrap on Err panics; nothing catches the panic
UnwrapErr == "aborted"

\* the pattern slice one byte short
RepeatingAppendsShort == {SubSeq(Pattern, 1, Len(Pattern) - 1)}

\* an empty pattern
RepeatingAppendsEmpty == {<<>>}

\* The slices the Repeating loop body appends (main.rs:31)
RepeatingAppends == {Pattern}

\* The slices one iteration of the Mixed loop body can append (main.rs:42-46)
MixedAppends == {IF b THEN Pattern ELSE <<c>> : b \in GenBool, c \in SampleAlphanumeric}

\* `while data.len() < DATA_SIZE`
LoopCond(v) == Len(v) < DATA_SIZE

\* The name the block of the current combination prints
BlockName ==
    CASE phase = "gzip" ->
           [family |-> "Gzip", level |-> compression_levels[levelIdx], data_name |-> None]
      [] phase = "flex" ->
           [family |-> "LZ4-Flex", level |-> None, data_name |-> test_cases[shapeIdx]]
      [] phase = "lz4rs" ->
           [family |-> "LZ4-RS", level |-> lz4_rs_levels[levelIdx].name,
            data_name |-> test_cases[shapeIdx]]

Event(kind) ==
    [kind |-> kind, shape |-> test_cases[shapeIdx], family |-> BlockName.family,
     level |-> BlockName.level]

----------------------------------------------------------------------------
(* main.rs: main *)

\* println!("\nRunning compression benchmarks ...")
Banner ==
    /\ prog = "report" /\ pc = "banner"
    /\ out' = [kind |-> "banner", trials |-> NUM_TRIALS,
               mb |-> (DATA_SIZE \div 1024) \div 1024]
    /\ events' = Append(events, [kind |-> "banner", shape |-> None,
                                 family |-> None, level |-> None])
    /\ pc' = "shape_loop"
    /\ UNCHANGED <<prog, DATA_SIZE, shapeIdx, phase, levelIdx, trial, data, segs,
                   stats, trialLog, errs>>
    /\ UNCHANGED benchVars

\* for (data_name, data_type) in &test_cases { println!("=== {} Data ===") ...
ShapeNext ==
    /\ prog = "report" /\ pc = "shape_loop"
    /\ shapeIdx < Len(test_cases)
    /\ shapeIdx' = shapeIdx + 1
    /\ out' = [kind |-> "header", data_name |-> test_cases[shapeIdx + 1]]
    /\ events' = Append(events, [kind |-> "header", shape |-> test_cases[shapeIdx + 1],
                                 family |-> None, level |-> None])
    /\ phase' = "gzip"
    /\ levelIdx' = 0
    /\ pc' = "level_loop"
    /\ UNCHANGED <<prog, DATA_SIZE, trial, data, segs, stats, trialLog, errs>>
    /\ UNCHANGED benchVars

\* the loop over test_cases is exhausted: main returns
ShapesEnd ==
    /\ prog = "report" /\ pc = "shape_loop"
    /\ shapeIdx >= Len(test_cases)
    /\ pc' = "done"
    /\ out' = NoOutput
    /\ UNCHANGED <<prog, DATA_SIZE, shapeIdx, phase, levelIdx, trial, data, segs,
                   stats, trialLog, events, errs>>
    /\ UNCHANGED benchVars

\* for (level_name, level) in &compression_levels { let mut stats = default();
\* for (level_name, level) in &lz4_rs_levels      { let mut stats = default();
LevelNext ==
    /\ prog = "report" /\ pc = "level_loop"
    /\ phase \in {"gzip", "lz4rs"}
    /\ levelIdx < (IF phase = "gzip" THEN Len(compression_levels) ELSE Len(lz4_rs_levels))
    /\ levelIdx' = levelIdx + 1
    /\ stats' = CompressionStatsDefault
    /\ trialLog' = <<>>
    /\ trial' = 0
    /\ pc' = "trial_loop"
    /\ out' = NoOutput
    /\ UNCHANGED <<prog, DATA_SIZE, shapeIdx, phase, data, segs, events, errs>>
    /\ UNCHANGED benchVars

\* the gzip levels are exhausted: `let mut stats = default()` of LZ4-Flex
GzipLevelsEnd ==
    /\ prog = "report" /\ pc = "level_loop"
    /\ phase = "gzip"
    /\ levelIdx >= Len(compression_levels)
    /\ phase' = "flex"
    /\ levelIdx' = 0
    /\ stats' = CompressionStatsDefault
    /\ trialLog' = <<>>
    /\ trial' = 0
    /\ pc' = "trial_loop"
    /\ out' = NoOutput
    /\ UNCHANGED <<prog, DATA_SIZE, shapeIdx, data, segs, events, errs>>
    /\ UNCHANGED benchVars

\* the lz4 levels are exhausted: the body of the test_cases loop ends
Lz4RsLevelsEnd ==
    /\ prog = "report" /\ pc = "level_loop"
    /\ phase = "lz4rs"
    /\ levelIdx >= Len(lz4_rs_levels)
    /\ pc' = "shape_loop"
    /\ out' = NoOutput
    /\ UNCHANGED <<prog, DATA_SIZE, shapeIdx, phase, levelIdx, trial, data, segs,
                   stats, trialLog, events, errs>>
    /\ UNCHANGED benchVars

\* for _ in 0..NUM_TRIALS { let data = generate_test_data(data_type);
\* the match of generate_test_data selects the arm
TrialNext ==
    /\ prog = "report" /\ pc = "trial_loop"
    /\ trial < NUM_TRIALS
    /\ trial' = trial + 1
    /\ data' = <<>>
    /\ segs' = <<>>
    /\ events' = Append(events, Event("trial_start"))
    /\ pc' = CASE test_cases[shapeIdx] = "Random" -> "gen_random"
               [] test_cases[shapeIdx] = "Repeating" -> "gen_repeating"
               [] test_cases[shapeIdx] = "Mixed" -> "gen_mixed"
    /\ out' = NoOutput
    /\ UNCHANGED <<prog, DATA_SIZE, shapeIdx, phase, levelIdx, stats, trialLog, errs>>
    /\ UNCHANGED benchVars

\* the trials of the combination are done
TrialsEnd ==
    /\ prog = "report" /\ pc = "trial_loop"
    /\ trial >= NUM_TRIALS
    /\ pc' = "print"
    /\ out' = NoOutput
    /\ UNCHANGED <<prog, DATA_SIZE, shapeIdx, phase, levelIdx, trial, data, segs,
                   stats, trialLog, events, errs>>
    /\ UNCHANGED benchVars

----------------------------------------------------------------------------
(* main.rs: generate_test_data *)

\* TestData::Random: sample_iter(&Alphanumeric).take(DATA_SIZE).collect()
GenRandom ==
    /\ prog = "report" /\ pc = "gen_random"
    /\ data' \in [1..DATA_SIZE -> SampleAlphanumeric]
    /\ pc' = "compress"
    /\ out' = NoOutput
    /\ UNCHANGED <<prog, DATA_SIZE, shapeIdx, phase, levelIdx, trial, segs,
                   stats, trialLog, events, errs>>
    /\ UNCHANGED benchVars

\* one iteration of a `while data.len() < DATA_SIZE` loop appending one of `appends`
GenLoopStep(at, appends) ==
    /\ prog = "report" /\ pc = at
    /\ LoopCond(data)
    /\ \E s \in appends :
         /\ data' = ExtendFromSlice(data, s)
         /\ segs' = Append(segs, s)
    /\ out' = NoOutput
    /\ UNCHANGED <<prog, pc, DATA_SIZE, shapeIdx, phase, levelIdx, trial,
                   stats, trialLog, events, errs>>
    /\ UNCHANGED benchVars

\* the loop exits: data.truncate(DATA_SIZE); data
GenLoopExit(at) ==
    /\ prog = "report" /\ pc = at
    /\ ~LoopCond(data)
    /\ data' = Truncate(data, DATA_SIZE)
    /\ pc' = "compress"
    /\ out' = NoOutput
    /\ UNCHANGED <<prog, DATA_SIZE, shapeIdx, phase, levelIdx, trial, segs,
                   stats, trialLog, events, errs>>
    /\ UNCHANGED benchVars

GenRepeatingStep == GenLoopStep("gen_repeating", RepeatingAppends)

GenRepeatingExit == GenLoopExit("gen_repeating")

GenMixedStep == GenLoopStep("gen_mixed", MixedAppends)

GenMixedExit == GenLoopExit("gen_mixed")

----------------------------------------------------------------------------
(* main.rs: the rest of a trial, and the report of a combination *)

\* stats after a trial of original_size bytes compressed to compressed_size
Accumulate(st, original_size, compressed_size, duration) ==
    LET factor == RatDiv(AsF64(original_size), AsF64(compressed_size)) IN
    [factor_sum |-> RatAdd(st.factor_sum, factor),
     time_sum   |-> RatAdd(st.time_sum, AsF64(duration)),
     size_sum   |-> st.size_sum + compressed_size]

\* the codec call returns Ok: the trial's sizes, factor and sums; data is dropped
TrialCompress ==
    /\ prog = "report" /\ pc = "compress"
    /\ \E compressed_size \in 1..MaxCompressed, duration \in 0..MaxDuration :
         /\ stats' = Accumulate(stats, Len(data), compressed_size, duration)
         /\ trialLog' = Append(trialLog, [combo |-> Event("trial"),
                                          original |-> Len(data),
                                          compressed |-> compressed_size,
                                          duration |-> duration])
    /\ events' = Append(events, Event("trial_end"))
    /\ data' = <<>>
    /\ segs' = <<>>
    /\ pc' = "trial_loop"
    /\ out' = NoOutput
    /\ UNCHANGED <<prog, DATA_SIZE, shapeIdx, phase, levelIdx, trial, errs>>
    /\ UNCHANGED benchVars

\* the codec call returns Err (gzip_compression and lz4_rs_compression unwrap;
\* lz4_flex's compress_prepend_size returns no Result): the panic unwinds
\* main, dropping data
TrialCodecErr ==
    /\ prog = "report" /\ pc = "compress"
    /\ phase \in {"gzip", "lz4rs"}
    /\ errs < MaxErrs
    /\ errs' = errs + 1
    /\ pc' = UnwrapErr
    /\ data' = <<>>
    /\ segs' = <<>>
    /\ out' = NoOutput
    /\ UNCHANGED <<prog, DATA_SIZE, shapeIdx, phase, levelIdx, trial,
                   stats, trialLog, events>>
    /\ UNCHANGED benchVars

\* the values the block's println! formats
BlockValues(st) ==
    [factor  |-> RatDiv(st.factor_sum, AsF64(NUM_TRIALS)),
     time    |-> RatDiv(st.time_sum, AsF64(NUM_TRIALS)),
     size_mb |-> RatDiv(AsF64(st.size_sum \div NUM_TRIALS), AsF64(1024 * 1024))]

\* println!("\n--- ... ---\nCompression Factor: ...") and the step to the next combination
PrintBlock ==
    /\ prog = "report" /\ pc = "print"
    /\ out' = [kind |-> "block", name |-> BlockName, values |-> BlockValues(stats)]
    /\ events' = Append(events, Event("block"))
    /\ IF phase = "flex"
         THEN phase' = "lz4rs" /\ levelIdx' = 0
         ELSE UNCHANGED <<phase, levelIdx>>
    /\ pc' = "level_loop"
    /\ UNCHANGED <<prog, DATA_SIZE, shapeIdx, trial, data, segs, stats, trialLog, errs>>
    /\ UNCHANGED benchVars

ReportNext ==
    \/ Banner \/ ShapeNext \/ ShapesEnd
    \/ LevelNext \/ GzipLevelsEnd \/ Lz4RsLevelsEnd
    \/ TrialNext \/ TrialsEnd
    \/ GenRandom \/ GenRepeatingStep \/ GenRepeatingExit \/ GenMixedStep \/ GenMixedExit
    \/ TrialCompress \/ TrialCodecErr \/ PrintBlock

ReportInit ==
    /\ prog = "report"
    /\ pc = "banner"
    /\ DATA_SIZE \in 0..MaxLen
    /\ shapeIdx = 0
    /\ phase = "gzip"
    /\ levelIdx = 0
    /\ trial = 0
    /\ data = <<>>
    /\ segs = <<>>
    /\ stats = NoStats
    /\ trialLog = <<>>
    /\ out = NoOutput
    /\ events = <<>>
    /\ errs = 0

BenchIdle ==
    /\ sizeIdx = 0
    /\ benchIdx = 0
    /\ buf = [len |-> 0, seed |-> 0]
    /\ group = NoGroup
    /\ generated = <<>>
    /\ measured = {}
    /\ last_iters = 0

----------------------------------------------------------------------------
(* benches/compression_benchmark.rs *)

\* 1KB, 1MB, 10MB
DATA_SIZES == <<1024, 1024 * 1024, 1024 * 1024 * 10>>

\* The buffers generate_binary_data(size) can return: `size` random bytes,
\* the contents standing as one of MaxSeed seeds.
generate_binary_data(size) == {[len |-> size, seed |-> s] : s \in 1..MaxSeed}

\* one group name for every size
benchmark_group_shared(size) == [name |-> "Compression", size |-> 0]

\* c.benchmark_group(format!("Compression_{}B", size))
benchmark_group(size) == [name |-> "Compression", size |-> size]

\* What a compression wrapper returns for buffer d: the codec's output for (d, level)
Compressed(fn, level, d) == [fn |-> fn, level |-> level, of |-> d]

\* The bench_function calls of one group, in source order.  `setup` is the
\* compression done before bench_function whose result the routine reads.
BenchPlan == <<
    [id |-> "gzip_fast",    fn |-> "gzip_compression", level |-> "fast",    setup |-> FALSE],
    [id |-> "gzip_default", fn |-> "gzip_compression", level |-> "default", setup |-> FALSE],
    [id |-> "gzip_best",    fn |-> "gzip_compression", level |-> "best",    setup |-> FALSE],
    [id |-> "lz4_flex",     fn |-> "lz4_flex_compression", level |-> None,  setup |-> FALSE],
    [id |-> "lz4_fast",     fn |-> "lz4_compression", level |-> "0",        setup |-> FALSE],
    [id |-> "lz4_default",  fn |-> "lz4_compression", level |-> "4",        setup |-> FALSE],
    [id |-> "lz4_best",     fn |-> "lz4_compression", level |-> "16",       setup |-> FALSE],
    [id |-> "gzip_decompress",        fn |-> "gzip_compression", level |-> "default", setup |-> TRUE],
    [id |-> "lz4_flex_decompress",    fn |-> "lz4_flex_compression", level |-> None,  setup |-> TRUE],
    [id |-> "lz4_decompress_fast",    fn |-> "lz4_compression", level |-> "0",        setup |-> TRUE],
    [id |-> "lz4_decompress_default", fn |-> "lz4_compression", level |-> "4",        setup |-> TRUE],
    [id |-> "lz4_decompress_best",    fn |-> "lz4_compression", level |-> "16",       setup |-> TRUE] >>

\* the decompression wrapper that reads the output of compression wrapper fn
DecompressionOf(fn) ==
    CASE fn = "gzip_compression" -> "gzip_decompression"
      [] fn = "lz4_flex_compression" -> "lz4_flex_decompression"
      [] fn = "lz4_compression" -> "lz4_decompression"

\* What criterion measures for plan entry e in group g on buffer d
Measurement(g, e, d) ==
    IF e.setup
      THEN [group |-> g, id |-> e.id, routine |-> DecompressionOf(e.fn), level |-> None,
            input |-> Compressed(e.fn, e.level, d)]
      ELSE [group |-> g, id |-> e.id, routine |-> e.fn, level |-> e.level, input |-> d]

\* the wrappers that unwrap a Result: all but lz4_flex_compression
CanFail(e) == e.setup \/ e.fn # "lz4_flex_compression"

\* for &size in &DATA_SIZES { let data = generate_binary_data(size);
\*                            let mut group = c.benchmark_group(...);
BenchSizeNext ==
    /\ prog = "bench" /\ pc = "size_loop"
    /\ sizeIdx < Len(DATA_SIZES)
    /\ sizeIdx' = sizeIdx + 1
    /\ \E d \in generate_binary_data(DATA_SIZES[sizeIdx + 1]) :
         /\ buf' = d
         /\ generated' = Append(generated, d)
    /\ group' = benchmark_group(DATA_SIZES[sizeIdx + 1])
    /\ benchIdx' = 0
    /\ pc' = "group"
    /\ UNCHANGED <<prog, measured, last_iters, errs>>
    /\ UNCHANGED reportVars

\* (the setup compression and) group.bench_function(id, |b| b.iter(|| ...))
BenchFunction ==
    /\ prog = "bench" /\ pc = "group"
    /\ benchIdx < Len(BenchPlan)
    /\ benchIdx' = benchIdx + 1
    /\ measured' = measured \cup {Measurement(group, BenchPlan[benchIdx + 1], buf)}
    /\ last_iters' \in 1..MaxIters
    /\ UNCHANGED <<prog, pc, sizeIdx, buf, group, generated, errs>>
    /\ UNCHANGED reportVars

\* a codec call of the next bench_function (or of its setup) returns Err
BenchCodecErr ==
    /\ prog = "bench" /\ pc = "group"
    /\ benchIdx < Len(BenchPlan)
    /\ CanFail(BenchPlan[benchIdx + 1])
    /\ errs < MaxErrs
    /\ errs' = errs + 1
    /\ pc' = UnwrapErr
    /\ UNCHANGED <<prog, sizeIdx, benchIdx, buf, group, generated, measured, last_iters>>
    /\ UNCHANGED reportVars

\* group.finish()
BenchGroupFinish ==
    /\ prog = "bench" /\ pc = "group"
    /\ benchIdx >= Len(BenchPlan)
    /\ group' = NoGroup
    /\ pc' = "size_loop"
    /\ UNCHANGED <<prog, sizeIdx, benchIdx, buf, generated, measured, last_iters, errs>>
    /\ UNCHANGED reportVars

\* the loop over DATA_SIZES is exhausted
BenchEnd ==
    /\ prog = "bench" /\ pc = "size_loop"
    /\ sizeIdx >= Len(DATA_SIZES)
    /\ pc' = "done"
    /\ UNCHANGED <<prog, sizeIdx, benchIdx, buf, group, generated, measured, last_iters, errs>>
    /\ UNCHANGED reportVars

BenchNext ==
    BenchSizeNext \/ BenchFunction \/ BenchCodecErr \/ BenchGroupFinish \/ BenchEnd

BenchInit ==
    /\ prog = "bench"
    /\ pc = "size_loop"
    /\ errs = 0
    /\ BenchIdle
    /\ DATA_SIZE = 0
    /\ shapeIdx = 0
    /\ phase = "gzip"
    /\ levelIdx = 0
    /\ trial = 0
    /\ data = <<>>
    /\ segs = <<>>
    /\ stats = NoStats
    /\ trialLog = <<>>
    /\ out = NoOutput
    /\ events = <<>>

----------------------------------------------------------------------------
(* The two binaries *)

Init == (ReportInit /\ BenchIdle) \/ BenchInit

Next == ReportNext \/ BenchNext

Spec == Init /\ [][Next]_vars

----------------------------------------------------------------------------
(* What the properties below speak of *)

\* the shape of the data being generated or just generated
Shape == test_cases[shapeIdx]

\* generate_test_data has returned and its result is in data
Generated == prog = "report" /\ pc = "compress"

\* "HelloWorld", as the specification spells it
HelloWorld == <<72, 101, 108, 108, 111, 87, 111, 114, 108, 100>>

Range(f) == {f[i] : i \in DOMAIN f}

IsPrefix(s, t) == Len(s) <= Len(t) /\ s = SubSeq(t, 1, Len(s))

RECURSIVE SumOf(_, _)
\* the sum of Val(e), a rational, over the entries e of log
SumOf(Val(_), log) ==
    IF log = <<>> THEN AsF64(0) ELSE RatAdd(Val(Head(log)), SumOf(Val, Tail(log)))

Mean(Val(_), log) == RatDiv(SumOf(Val, log), AsF64(Len(log)))

FactorOf(e) == Rat(e.original, e.compressed)

TimeOf(e) == AsF64(e.duration)

SizeOf(e) == AsF64(e.compressed)

----------------------------------------------------------------------------
(* C1 *)

\* C1: whatever the shape and the configured length, the sequence
\* generate_test_data returns is exactly DATA_SIZE bytes long.
C1_ExactLength == Generated => Len(data) = DATA_SIZE

\* a Mixed buffer whose last append overshot DATA_SIZE has been returned
C1_Witness ==
    /\ Generated /\ Shape = "Mixed"
    /\ DATA_SIZE > 0
    /\ Len(Flatten(segs)) > DATA_SIZE
    /\ Len(data) = DATA_SIZE

(* C2 *)

\* C2: a Repeating buffer is the DATA_SIZE-byte prefix of HelloWorldHelloWorld...:
\* byte i (from 0) is byte (i mod 10) of "HelloWorld".
C2_RepeatingPrefix ==
    (Generated /\ Shape = "Repeating") =>
        /\ Len(data) = DATA_SIZE
        /\ \A i \in 0..(Len(data) - 1) : data[i + 1] = HelloWorld[(i % 10) + 1]

\* a Repeating buffer that runs into the second copy of the pattern and is cut inside it
C2_Witness ==
    /\ Generated /\ Shape = "Repeating"
    /\ Len(data) > Len(HelloWorld)
    /\ Len(data) % Len(HelloWorld) # 0

(* C9 *)

\* C9: every byte of a Mixed buffer is alphanumeric or a byte of "HelloWorld",
\* and the buffer is the first DATA_SIZE bytes of a concatenation of segments,
\* each the whole pattern or one alphanumeric byte.
C9_MixedBytes ==
    (Generated /\ Shape = "Mixed") =>
        /\ \A i \in 1..Len(data) : data[i] \in Alphanumeric \cup Range(HelloWorld)
        /\ \A k \in 1..Len(segs) :
              \/ segs[k] = HelloWorld
              \/ Len(segs[k]) = 1 /\ segs[k][1] \in Alphanumeric
        /\ Len(Flatten(segs)) >= DATA_SIZE
        /\ data = SubSeq(Flatten(segs), 1, DATA_SIZE)

\* a Mixed buffer made of single bytes and a pattern that was cut
C9_Witness ==
    /\ Generated /\ Shape = "Mixed"
    /\ \E j, k \in 1..Len(segs) : segs[j] = HelloWorld /\ Len(segs[k]) = 1
    /\ Len(Flatten(segs)) > DATA_SIZE

(* C5 *)

\* C5: the three values a block prints are the means over the NUM_TRIALS trials
\* of the block's own combination: of original/compressed, of the elapsed time,
\* and of the compressed size (in MB).
C5_MeanOfTrials ==
    (prog = "report" /\ out.kind = "block") =>
        /\ Len(trialLog) = NUM_TRIALS
        /\ \A k \in 1..Len(trialLog) :
              /\ trialLog[k].combo.shape = Shape
              /\ trialLog[k].combo.family = out.name.family
              /\ trialLog[k].combo.level = out.name.level
        /\ out.values.factor = Mean(FactorOf, trialLog)
        /\ out.values.time = Mean(TimeOf, trialLog)
        /\ out.values.size_mb = RatDiv(Mean(SizeOf, trialLog), AsF64(1024 * 1024))

\* a block of a later combination, whose trial had a factor other than those before
C5_Witness ==
    /\ prog = "report" /\ out.kind = "block"
    /\ shapeIdx = 2 /\ out.name.family = "LZ4-RS" /\ out.name.level = "Best"
    /\ DATA_SIZE = 3
    /\ trialLog[1].compressed = 2 /\ trialLog[1].duration = 1
    /\ out.values.factor = <<3, 2>>

(* C6 *)

ClaimShapes == <<"Random", "Repeating", "Mixed">>

ClaimCodecs == <<[family |-> "Gzip", level |-> "Fast"],
                 [family |-> "Gzip", level |-> "Default"],
                 [family |-> "Gzip", level |-> "Best"],
                 [family |-> "LZ4-Flex", level |-> None],
                 [family |-> "LZ4-RS", level |-> "Fast"],
                 [family |-> "LZ4-RS", level |-> "Default"],
                 [family |-> "LZ4-RS", level |-> "Best"]>>

ClaimEvent(kind, shape, codec) ==
    [kind |-> kind, shape |-> shape, family |-> codec.family, level |-> codec.level]

\* the events of one combination: its trials, each started and ended, then its block
ClaimCombination(shape, codec) ==
    Flatten([t \in 1..NUM_TRIALS |->
                <<ClaimEvent("trial_start", shape, codec),
                  ClaimEvent("trial_end", shape, codec)>>])
    \o <<ClaimEvent("block", shape, codec)>>

ClaimShape(shape) ==
    <<[kind |-> "header", shape |-> shape, family |-> None, level |-> None]>>
    \o Flatten([c \in 1..Len(ClaimCodecs) |-> ClaimCombination(shape, ClaimCodecs[c])])

ClaimRun ==
    <<[kind |-> "banner", shape |-> None, family |-> None, level |-> None]>>
    \o Flatten([i \in 1..Len(ClaimShapes) |-> ClaimShape(ClaimShapes[i])])

\* C6: the run goes shape by shape (Random, Repeating, Mixed): the shape's header,
\* then the seven combinations in the order Gzip Fast/Default/Best, LZ4-Flex,
\* LZ4-RS Fast/Default/Best, each combination's block after all its trials and
\* before any trial of the next; and a block is printed under its own name.
C6_ReportOrder ==
    prog = "report" =>
        /\ IsPrefix(events, ClaimRun)
        /\ out.kind = "block" =>
              /\ events[Len(events)].kind = "block"
              /\ out.name.family = events[Len(events)].family
              /\ out.name.level = events[Len(events)].level
        /\ out.kind = "header" =>
              /\ events[Len(events)].kind = "header"
              /\ out.data_name = events[Len(events)].shape

\* the whole report has been printed
C6_Witness == prog = "report" /\ pc = "done" /\ events = ClaimRun

(* C8 *)

\* the combination a failing codec call belongs to has printed no block
NoBlockOfCurrent ==
    \A k \in 1..Len(events) :
        ~(/\ events[k].kind = "block"
          /\ events[k].shape = Shape
          /\ events[k].family = BlockName.family
          /\ events[k].level = BlockName.level)

\* C8: once a codec call has returned Err the run is aborted: the call is not
\* made again, the trial it belongs to never ends, and neither its combination
\* nor a later one prints a block.
C8_FailureAborts ==
    errs > 0 =>
        /\ pc = "aborted"
        /\ errs = 1
        /\ prog = "report" =>
              /\ out.kind = "none"
              /\ events[Len(events)] = Event("trial_start")
              /\ IsPrefix(events, ClaimRun)
              /\ NoBlockOfCurrent

\* a run aborted in a later combination, after blocks were printed
C8_Witness ==
    /\ prog = "report" /\ pc = "aborted" /\ errs = 1
    /\ shapeIdx = 2 /\ phase = "lz4rs" /\ levelIdx = 2
    /\ \E k \in 1..Len(events) : events[k].kind = "block"

(* C10 *)

TrialsRun == Cardinality({k \in 1..Len(events) : events[k].kind = "trial_end"})

InGeneratorLoop == prog = "report" /\ pc \in {"gen_repeating", "gen_mixed"}

Terminal == pc \in {"done", "aborted"}

\* how far along its straight-line code the running binary is, terminal last
PcRank ==
    CASE pc \in {"done", "aborted"} -> 0
      [] pc \in {"shape_loop", "size_loop"} -> 1
      [] pc \in {"level_loop", "group"} -> 2
      [] pc = "print" -> 3
      [] pc = "trial_loop" -> 4
      [] pc = "compress" -> 5
      [] pc \in {"gen_random", "gen_repeating", "gen_mixed"} -> 6
      [] pc = "banner" -> 7

\* the work left, outermost loop first: shapes (sizes), codec sections, levels
\* (bench functions), trials, position, and room left in the generator's buffer
Measure ==
    IF prog = "report"
      THEN << IF pc = "banner" THEN 4 ELSE 3 - shapeIdx,
              IF pc \in {"banner", "shape_loop", "done"} THEN 0
              ELSE CASE phase = "gzip" -> 3 [] phase = "flex" -> 2 [] phase = "lz4rs" -> 1,
              3 - levelIdx,
              NUM_TRIALS - trial,
              PcRank,
              (DATA_SIZE + Len(HelloWorld)) - Len(data) >>
      ELSE << 3 - sizeIdx, 0, 12 - benchIdx, 0, PcRank, 0 >>

RECURSIVE LexLess(_, _)
\* m comes before n in the lexicographic order
LexLess(m, n) ==
    /\ m # <<>>
    /\ \/ Head(m) < Head(n)
       \/ Head(m) = Head(n) /\ LexLess(Tail(m), Tail(n))

\* C10: the run terminates (in "done", or aborted by a codec failure): every
\* step takes a measure made of six natural numbers strictly down in the
\* lexicographic order, and a run that has not ended has a next step; an
\* iteration of a generator loop makes the buffer strictly longer, and the
\* loop is left once the buffer has DATA_SIZE bytes; a run that completes has
\* run exactly 3 x 7 x NUM_TRIALS trials.
C10_Terminates ==
    /\ [](\A i \in 1..6 : Measure[i] \in Nat)
    /\ [][LexLess(Measure', Measure)]_vars
    /\ [](~Terminal => ENABLED <<Next>>_vars)
    /\ [][InGeneratorLoop =>
            IF Len(data) < DATA_SIZE
              THEN pc' = pc /\ Len(data') > Len(data)
              ELSE pc' = "compress"]_vars
    /\ []((prog = "report" /\ pc = "done") => TrialsRun = 3 * 7 * NUM_TRIALS)

\* a completed run whose generator loops ran
C10_Witness ==
    /\ prog = "report" /\ pc = "done"
    /\ DATA_SIZE > Len(Pattern)
    /\ TrialsRun = 21

(* C7 *)

ClaimSizes == <<1024, 1024 * 1024, 10 * 1024 * 1024>>

\* codec and level of a measurement's compression (its own, or the one
\* that made its input)
ClaimBenchCodecs == {<<"gzip_compression", "fast">>, <<"gzip_compression", "default">>,
                     <<"gzip_compression", "best">>, <<"lz4_flex_compression", None>>,
                     <<"lz4_compression", "0">>, <<"lz4_compression", "4">>,
                     <<"lz4_compression", "16">>}

ClaimDecompressor(fn) ==
    CASE fn = "gzip_compression" -> "gzip_decompression"
      [] fn = "lz4_flex_compression" -> "lz4_flex_decompression"
      [] fn = "lz4_compression" -> "lz4_decompression"

\* in the group of size number i, compression by c of the size's buffer was measured
CompressionMeasured(i, c) ==
    \E m \in measured :
        /\ m.group.size = ClaimSizes[i]
        /\ m.routine = c[1] /\ m.level = c[2]
        /\ m.input = generated[i]

\* in the group of size number i, decompression of c's output for the size's
\* buffer was measured
DecompressionMeasured(i, c) ==
    \E m \in measured :
        /\ m.group.size = ClaimSizes[i]
        /\ m.routine = ClaimDecompressor(c[1])
        /\ m.input = [fn |-> c[1], level |-> c[2], of |-> generated[i]]

BenchDone == prog = "bench" /\ pc = "done"

\* one buffer per size, of that size, and every measurement in its size's
\* group on that buffer
OneBufferPerSize ==
    /\ Len(generated) = Len(ClaimSizes)
    /\ \A i \in 1..Len(ClaimSizes) : generated[i].len = ClaimSizes[i]
    /\ \A m \in measured : \E i \in 1..Len(ClaimSizes) :
          /\ m.group = [name |-> "Compression", size |-> ClaimSizes[i]]
          /\ m.input \in {generated[i]} \cup
                {[fn |-> c[1], level |-> c[2], of |-> generated[i]] : c \in ClaimBenchCodecs}

\* C7 as stated: for each size, compression and decompression are measured for
\* each of the seven codec/level pairs, in the size's group, on the size's buffer.
C7_AllPairsBothWays ==
    BenchDone =>
        /\ OneBufferPerSize
        /\ \A i \in 1..Len(ClaimSizes) : \A c \in ClaimBenchCodecs :
              CompressionMeasured(i, c) /\ DecompressionMeasured(i, c)

\* C7, amended: for each size, compression is measured for each of the seven
\* codec/level pairs; decompression is measured for LZ4 at its three levels, for
\* LZ4-flex, and for gzip at the default level only; all in the size's group, on
\* the size's one buffer.
C7_Measured ==
    BenchDone =>
        /\ OneBufferPerSize
        /\ \A i \in 1..Len(ClaimSizes) : \A c \in ClaimBenchCodecs :
              /\ CompressionMeasured(i, c)
              /\ DecompressionMeasured(i, c) <=>
                    ~(c[1] = "gzip_compression" /\ c[2] \in {"fast", "best"})
        /\ Cardinality(measured) = 12 * Len(ClaimSizes)

\* the benchmark suite has completed, on buffers that differ
C7_Witness ==
    /\ BenchDone
    /\ Cardinality(measured) = 36
    /\ generated[1].seed # generated[2].seed

====
